---- MODULE Spec2Model ----
(***************************************************************************)
(* Video-Veil (scripts/video-veil.py): the frame store, the per-frame      *)
(* img2img loop of Script.run with its cancellation and job bookkeeping,   *)
(* the noise-inversion loop and the video assembly, as a state machine.    *)
(*                                                                         *)
(* Opaque collaborators (the host pipeline process_images, the diffusion   *)
(* model, the codec) are modelled at their interface: what the script      *)
(* hands them and how often.  Images are integers: a source frame is its   *)
(* position 1..N in the source, the pipeline's output for an input image   *)
(* k is Generated(k), and Python's None is 0.                              *)
(***************************************************************************)
EXTENDS Integers, Sequences, FiniteSets, TLC

\* ---------------------------------------------------------------- bounds
MaxFrames == 3      \* most usable frames a source holds
MaxCap == 2         \* largest value of the "# of frames to test" slider
MaxIter == 2        \* largest p.n_iter
MaxSteps == 2       \* largest p.steps

\* ------------------------------------------------------------- constants
None == 0

color_correction_option_none == "None"
color_correction_option_video == "From Source Video"
color_correction_option_generated_image == "From Stable Diffusion Generated Image"

color_correction_options ==
    { color_correction_option_none,
      color_correction_option_video,
      color_correction_option_generated_image }

\* Paths: "" stands for None or the empty string, "gone" for a path that does
\* not exist, "there" for an existing file or directory.
NoPath == ""
Paths == {NoPath, "gone", "there"}

os_path_exists(path) == path = "there"

NoError == "none"
SourceNotFound == "Exception: Directory/Video not found"
EmptySource == "Exception: No images found"
UnboundLocal == "UnboundLocalError: proc"
WriteNone == "cv2.error: cvtColor(np.array(None))"

Min(a, b) == IF a <= b THEN a ELSE b

\* ------------------------------------------------------- VideoVeilImage
\* A frame: its decoded image and the transformed image, initially None.
VideoVeilImage(frame_image) ==
    [frame_image |-> frame_image, transformed_image |-> None]

\* A variant that forgets to store the image.
set_transformed_image_forgets(frame, image) == frame

set_transformed_image(frame, image) ==
    [frame EXCEPT !.transformed_image = image]

\* --------------------------------------------- noise inversion (49-101)
\* The schedule provider returns steps+1 sigmas, decreasing to 0; a sigma is
\* modelled by the square of its rank, so the reversed schedule reads 0, 1, 4,
\* ..., steps^2 and no two neighbours are equally far apart.
get_sigmas(steps) == [j \in 1..(steps + 1) |-> (steps + 1 - j) * (steps + 1 - j)]

flip(s) == [j \in 1..Len(s) |-> s[Len(s) + 1 - j]]

\* Python's 0-based sigmas[k] and sigmas[-1].
At(sigmas, k) == sigmas[k + 1]
Last(sigmas) == sigmas[Len(sigmas)]

\* CompVisVDenoiser.get_scalings gives (c_skip, c_out, c_in), CompVisDenoiser
\* gives (c_out, c_in); each scale factor is tagged with the sigma it is of.
get_scalings(parameterization, sigma) ==
    IF parameterization = "v"
    THEN << <<"c_skip", sigma>>, <<"c_out", sigma>>, <<"c_in", sigma>> >>
    ELSE << <<"c_out", sigma>>, <<"c_in", sigma>> >>

skip_of(parameterization) == IF parameterization = "v" THEN 1 ELSE 0

\* seq[skip:]
Drop(seq, skip) == SubSeq(seq, skip + 1, Len(seq))

\* A variant of the loop body that treats i = 1 like every other iteration.
inversion_step_no_anchor(parameterization, sigmas, i) ==
    LET sigma_in == At(sigmas, i - 1)
        scal == Drop(get_scalings(parameterization, sigma_in),
                     skip_of(parameterization))
    IN  [i |-> i, c_out |-> scal[1], c_in |-> scal[2],
         t |-> sigma_in, div |-> At(sigmas, i - 1),
         dt |-> At(sigmas, i) - At(sigmas, i - 1)]

\* One iteration of the loop body (lines 66-91): what it reads from the
\* schedule and the one apply_model call it makes.
inversion_step(parameterization, sigmas, i) ==
    LET sigma_in == At(sigmas, i - 1)
        scal == Drop(get_scalings(parameterization, sigma_in),
                     skip_of(parameterization))
        t == IF i = 1 THEN At(sigmas, i) ELSE sigma_in
        div == IF i = 1 THEN 2 * At(sigmas, i) ELSE At(sigmas, i - 1)
        dt == At(sigmas, i) - At(sigmas, i - 1)
    IN  [i |-> i, c_out |-> scal[1], c_in |-> scal[2],
         t |-> t, div |-> div, dt |-> dt]

RECURSIVE inversion_loop(_, _, _, _)
inversion_loop(parameterization, sigmas, i, calls) ==
    IF i >= Len(sigmas) THEN calls
    ELSE inversion_loop(parameterization, sigmas, i + 1,
                        Append(calls, inversion_step(parameterization, sigmas, i)))

\* An off-by-one variant of the loop: range(0, len(sigmas) - 1 + skip).
RECURSIVE inversion_loop_skip(_, _, _, _)
inversion_loop_skip(parameterization, sigmas, i, calls) ==
    IF i >= Len(sigmas) + skip_of(parameterization) THEN calls
    ELSE inversion_loop_skip(parameterization, sigmas, i + 1,
            Append(calls, inversion_step(parameterization, sigmas,
                                         Min(i, Len(sigmas) - 1))))

find_noise_skip_dependent(parameterization, steps) ==
    LET sigmas == flip(get_sigmas(steps))
    IN  [apply_model |-> inversion_loop_skip(parameterization, sigmas, 1, <<>>),
         sampling_steps |-> steps,
         divisor |-> Last(sigmas)]

\* find_noise_for_image_sigma_adjustment: the apply_model calls of
\* `for i in trange(1, len(sigmas))`, the sampling_steps it publishes and the
\* schedule entry the result is divided by.
find_noise_for_image_sigma_adjustment(parameterization, steps) ==
    LET sigmas == flip(get_sigmas(steps))
    IN  [apply_model |-> inversion_loop(parameterization, sigmas, 1, <<>>),
         sampling_steps |-> steps,
         divisor |-> Last(sigmas)]

\* --------------------------------------------- VideoVeilSourceVideo
image_extensions == <<".jpg", ".jpeg", ".png">>

\* os.listdir of the existing directory: `count` image files, numbered in
\* listing order and cycling through the three extensions, and, when `other`
\* is set, a file that is no image listed in second place.
image_file(k) == [stem |-> k, ext |-> image_extensions[((k - 1) % 3) + 1]]

os_listdir(fs) ==
    LET imgs == [k \in 1..fs.count |-> image_file(k)]
        txt == [stem |-> None, ext |-> ".txt"]
    IN  IF ~fs.other THEN imgs
        ELSE IF fs.count = 0 THEN <<txt>>
        ELSE <<imgs[1], txt>> \o SubSeq(imgs, 2, fs.count)

is_image_name(file_name) ==
    \E e \in 1..Len(image_extensions) : file_name.ext = image_extensions[e]

\* The list comprehension of lines 184-187.
image_names_of(listing) == SelectSeq(listing, is_image_name)

\* What a loader leaves behind: the frames, the images it opened or decoded
\* (in the order it did), whether it touched the source at all, its error.
Loaded(frames, opened, attempted, error) ==
    [frames |-> frames, opened |-> opened, attempted |-> attempted, error |-> error]

\* A variant of the folder loop that tests the cap after opening the image.
RECURSIVE folder_loop_late_cap(_, _, _, _, _)
folder_loop_late_cap(image_names, idx, frames, opened, cap) ==
    IF idx > Len(image_names) THEN Loaded(frames, opened, TRUE, NoError)
    ELSE LET image == image_names[idx].stem
         IN  IF cap # None /\ Len(frames) >= cap
             THEN Loaded(frames, Append(opened, image), TRUE, NoError)
             ELSE folder_loop_late_cap(image_names, idx + 1,
                                       Append(frames, VideoVeilImage(image)),
                                       Append(opened, image), cap)

\* The for loop of lines 194-207.
RECURSIVE folder_loop(_, _, _, _, _)
folder_loop(image_names, idx, frames, opened, cap) ==
    IF idx > Len(image_names) THEN Loaded(frames, opened, TRUE, NoError)
    ELSE IF cap # None /\ Len(frames) >= cap
         THEN Loaded(frames, opened, TRUE, NoError)
         ELSE LET image == image_names[idx].stem
              IN  folder_loop(image_names, idx + 1,
                              Append(frames, VideoVeilImage(image)),
                              Append(opened, image), cap)

load_frames_from_folder_late_cap(fs, cap) ==
    LET image_names == image_names_of(os_listdir(fs))
    IN  IF Len(image_names) <= 0
        THEN Loaded(<<>>, <<>>, TRUE, EmptySource)
        ELSE folder_loop_late_cap(image_names, 1, <<>>, <<>>, cap)

load_frames_from_folder(fs, cap) ==
    LET image_names == image_names_of(os_listdir(fs))
    IN  IF Len(image_names) <= 0
        THEN Loaded(<<>>, <<>>, TRUE, EmptySource)
        ELSE folder_loop(image_names, 1, <<>>, <<>>, cap)

\* cv2.VideoCapture on the existing file: it opens when the file holds
\* decodable frames, and read() succeeds once per such frame.
cap_isOpened(fs) == fs.count > 0

\* The while loop of lines 216-226.
RECURSIVE video_loop(_, _, _, _)
video_loop(fs, frames, opened, cap) ==
    IF cap # None /\ Len(frames) >= cap
    THEN Loaded(frames, opened, TRUE, NoError)
    ELSE IF Len(opened) < fs.count
         THEN LET image == Len(opened) + 1
              IN  video_loop(fs, Append(frames, VideoVeilImage(image)),
                             Append(opened, image), cap)
         ELSE Loaded(frames, opened, TRUE, NoError)

load_frames_from_video(fs, cap) ==
    IF ~cap_isOpened(fs) THEN Loaded(<<>>, <<>>, TRUE, NoError)
    ELSE video_loop(fs, <<>>, <<>>, cap)

\* A constructor that never raises, as with throw_errors_when_invalid unset.
SourceVideo_silent(use_images_directory, video_path, directory_upload_path, test_run, test_run_frames_count, throw_errors_when_invalid, fs) ==
    LET cap == IF ~test_run THEN None ELSE test_run_frames_count
        path == IF use_images_directory THEN directory_upload_path ELSE video_path
    IN  IF path = NoPath \/ ~os_path_exists(path)
        THEN Loaded(<<>>, <<>>, FALSE, NoError)
        ELSE IF use_images_directory THEN load_frames_from_folder(fs, cap)
             ELSE load_frames_from_video(fs, cap)

\* VideoVeilSourceVideo.__init__ (lines 113-140).
VideoVeilSourceVideo(use_images_directory, video_path, directory_upload_path, test_run, test_run_frames_count, throw_errors_when_invalid, fs) ==
    LET cap == IF ~test_run THEN None ELSE test_run_frames_count
    IN  IF use_images_directory
        THEN IF directory_upload_path = NoPath \/ ~os_path_exists(directory_upload_path)
             THEN IF throw_errors_when_invalid
                  THEN Loaded(<<>>, <<>>, FALSE, SourceNotFound)
                  ELSE Loaded(<<>>, <<>>, FALSE, NoError)
             ELSE load_frames_from_folder(fs, cap)
        ELSE IF video_path = NoPath \/ ~os_path_exists(video_path)
             THEN IF throw_errors_when_invalid
                  THEN Loaded(<<>>, <<>>, FALSE, SourceNotFound)
                  ELSE Loaded(<<>>, <<>>, FALSE, NoError)
             ELSE load_frames_from_video(fs, cap)

\* ------------------------------------------------------------ create_mp4
\* The video writer: whether create_mp4 ran, the directory it made, the frames
\* it wrote, whether it released the writer and set the output path, its error.
NoVideo ==
    [called |-> FALSE, makedirs |-> FALSE, written |-> <<>>, released |-> FALSE,
     output_path |-> FALSE, gallery |-> FALSE, error |-> NoError]

\* The for loop of lines 171-172: cvtColor raises on a frame whose
\* transformed image is None, before anything is written for it.
RECURSIVE write_loop(_, _, _)
write_loop(frames, idx, written) ==
    IF idx > Len(frames) THEN [written |-> written, error |-> NoError]
    ELSE IF frames[idx].transformed_image = None
         THEN [written |-> written, error |-> WriteNone]
         ELSE write_loop(frames, idx + 1,
                         Append(written, frames[idx].transformed_image))

create_mp4(test_run, frames) ==
    IF test_run THEN [NoVideo EXCEPT !.called = TRUE]
    ELSE LET w == write_loop(frames, 1, <<>>)
         IN  IF w.error # NoError
             THEN [called |-> TRUE, makedirs |-> TRUE, written |-> w.written,
                   released |-> FALSE, output_path |-> FALSE, gallery |-> FALSE,
                   error |-> w.error]
             ELSE [called |-> TRUE, makedirs |-> TRUE, written |-> w.written,
                   released |-> TRUE, output_path |-> TRUE, gallery |-> TRUE,
                   error |-> NoError]

\* ------------------------------------------------------------------ state
VARIABLES
    args,           \* the arguments of Script.run that come from ui()
    p,              \* the base processing request handed to Script.run
    fs,             \* what lies at the existing path: usable frames, other files
    parameterization,   \* shared.sd_model.parameterization
    pc,             \* "Idle", "Running", "Returned" or "Raised"
    error,          \* the exception that ended the run, or NoError
    source_video,   \* what the constructor left: frames, opened, attempted, error
    frames,         \* source_video.frames
    i,              \* frames the loop has iterated over
    cancelled,      \* the loop left through `break`
    state,          \* shared.state: job_count, job_no, interrupted, skipped, sampling_steps
    model,          \* calls into the diffusion model: sample_extra, apply_model
    requests,       \* the requests process_images was invoked with, in order
    proc,           \* the local `proc`: bound or not, its images and seed
    out             \* the video writer

vars == <<args, p, fs, parameterization, pc, error, source_video, frames, i,
          cancelled, state, model, requests, proc, out>>

\* The image the pipeline generates from input image k.
Generated(k) == 0 - k

\* The image already in the img2img tab when no frame is injected.
BaseImage == MaxFrames + 1

Unbound == [bound |-> FALSE, images |-> <<>>, seed |-> None]

Init ==
    /\ args \in [use_images_directory : BOOLEAN,
                 video_path : Paths,
                 directory_upload_path : Paths,
                 color_correction : color_correction_options,
                 test_run : BOOLEAN,
                 test_run_frames_count : 1..MaxCap]
    /\ p \in [n_iter : 1..MaxIter, steps : 1..MaxSteps,
              init_images : {BaseImage}, control_net_input_image : {None},
              color_corrections : {None}, batch_size : {1},
              sampler_name : {"ui"}, sample : {"sample"}, frame : {None}]
    /\ fs \in [count : 0..MaxFrames, other : BOOLEAN]
    /\ parameterization \in {"eps", "v"}
    /\ pc = "Idle"
    /\ error = NoError
    /\ source_video = Loaded(<<>>, <<>>, FALSE, NoError)
    /\ frames = <<>>
    /\ i = 0
    /\ cancelled = FALSE
    /\ state = [job_count |-> 0, job_no |-> 0, interrupted |-> FALSE,
                skipped |-> FALSE, sampling_steps |-> 0]
    /\ model = [sample_extra |-> 0, apply_model |-> 0, inversion |-> <<>>,
                divisor |-> None]
    /\ requests = <<>>
    /\ proc = Unbound
    /\ out = NoVideo

\* ----------------------------------------------------- the sampling step
\* A sampling step that leaves the job count alone.
sample_extra_same_job_count(st, m, param, steps) ==
    LET inv == find_noise_for_image_sigma_adjustment(param, steps)
    IN  [state |-> [st EXCEPT !.sampling_steps = inv.sampling_steps,
                              !.job_no = @ + 1],
         model |-> [sample_extra |-> m.sample_extra + 1,
                    apply_model |-> m.apply_model + Len(inv.apply_model),
                    inversion |-> inv.apply_model,
                    divisor |-> inv.divisor]]

\* sample_extra (lines 451-469): one more job, then the noise inversion, whose
\* nextjob() (line 99) advances job_no.
sample_extra(st, m, param, steps) ==
    LET inv == find_noise_for_image_sigma_adjustment(param, steps)
    IN  [state |-> [st EXCEPT !.job_count = @ + 1,
                              !.sampling_steps = inv.sampling_steps,
                              !.job_no = @ + 1],
         model |-> [sample_extra |-> m.sample_extra + 1,
                    apply_model |-> m.apply_model + Len(inv.apply_model),
                    inversion |-> inv.apply_model,
                    divisor |-> inv.divisor]]

\* apply_img2img_alternate_fix (lines 448-471).
apply_img2img_alternate_fix(cp) ==
    [cp EXCEPT !.batch_size = 1, !.sampler_name = "Euler", !.sample = "sample_extra"]

\* The host pipeline process_images(cp), at its interface: it samples once per
\* iteration through cp.sample and returns one image and a seed.  The seed is
\* the invocation's ordinal, so that two invocations never report the same.
RECURSIVE sample_n_iter(_, _, _, _, _)
sample_n_iter(n, st, m, param, steps) ==
    IF n = 0 THEN [state |-> st, model |-> m]
    ELSE LET s == sample_extra(st, m, param, steps)
         IN  sample_n_iter(n - 1, s.state, s.model, param, steps)

process_images(cp, st, m, param, ordinal) ==
    LET s == IF cp.sample = "sample_extra"
             THEN sample_n_iter(cp.n_iter, st, m, param, cp.steps)
             ELSE [state |-> st, model |-> m]
    IN  [proc |-> [bound |-> TRUE,
                   images |-> <<Generated(cp.init_images)>>,
                   seed |-> ordinal],
         state |-> s.state, model |-> s.model]

\* ------------------------------------------------------------ Script.run
enabled(a) ==
    LET no_video_path == a.video_path = NoPath
        no_directory_upload_path == a.directory_upload_path = NoPath
    IN  ~no_video_path \/ ~no_directory_upload_path

\* Lines 541-549: the colour-correction reference of the request, or None.
\* `done` is the number of frames already iterated over; the generated-image
\* option reads source_video.frames[-1], the last frame of the sequence.
color_corrections_of(a, frame, all_frames, done) ==
    IF a.color_correction = color_correction_option_none THEN None
    ELSE IF a.color_correction = color_correction_option_video
         THEN frame.frame_image
         ELSE IF Len(all_frames) > 0
                 /\ all_frames[Len(all_frames)].transformed_image # None
              THEN all_frames[Len(all_frames)].transformed_image
              ELSE None

\* Lines 560-569 with `proc` as the loop left it: the image list, create_mp4
\* on the source (whose test_run is the run's), the return.
AfterLoop(pr, fr) ==
    IF ~pr.bound
    THEN /\ pc' = "Raised"
         /\ error' = UnboundLocal
         /\ proc' = pr
         /\ out' = out
    ELSE LET video == create_mp4(args.test_run, fr)
         IN  /\ proc' = [pr EXCEPT !.images =
                            [k \in 1..Len(fr) |-> fr[k].transformed_image]]
             /\ out' = video
             /\ pc' = IF video.error = NoError THEN "Returned" ELSE "Raised"
             /\ error' = video.error

\* Script.run up to the loop (lines 492-513): the script is not enabled and
\* the base request goes to the pipeline; or the source is built, which may
\* raise; or no frame was loaded and `return proc` finds proc unbound.
Run ==
    /\ pc = "Idle"
    /\ IF ~enabled(args)
       THEN LET r == process_images(p, state, model, parameterization,
                                    Len(requests) + 1)
            IN  /\ requests' = Append(requests, p)
                /\ proc' = r.proc
                /\ state' = r.state
                /\ model' = r.model
                /\ pc' = "Returned"
                /\ UNCHANGED <<error, source_video, frames>>
       ELSE LET sv == VideoVeilSourceVideo(args.use_images_directory,
                          args.video_path, args.directory_upload_path,
                          args.test_run, args.test_run_frames_count, TRUE, fs)
            IN  /\ source_video' = sv
                /\ frames' = sv.frames
                /\ IF sv.error # NoError
                   THEN /\ pc' = "Raised"
                        /\ error' = sv.error
                        /\ state' = state
                   ELSE IF Len(sv.frames) > 0
                        THEN /\ pc' = "Running"
                             /\ error' = error
                             /\ state' = [state EXCEPT
                                    !.job_count = Len(sv.frames) * p.n_iter,
                                    !.job_no = 0]
                        ELSE /\ pc' = "Raised"
                             /\ error' = UnboundLocal
                             /\ state' = state
                /\ UNCHANGED <<requests, proc, model>>
    /\ UNCHANGED <<args, p, fs, parameterization, i, cancelled, out>>

\* One iteration of the loop that is not interrupted (lines 517-558).
ProcessFrame ==
    /\ pc = "Running"
    /\ i < Len(frames)
    /\ ~state.interrupted
    /\ LET frame == frames[i + 1]
           st == [state EXCEPT !.skipped = FALSE]
           cp == [apply_img2img_alternate_fix(p) EXCEPT
                    !.frame = i + 1,
                    !.control_net_input_image = frame.frame_image,
                    !.init_images = frame.frame_image,
                    !.color_corrections =
                        color_corrections_of(args, frame, frames, i)]
           r == process_images(cp, st, model, parameterization,
                               Len(requests) + 1)
       IN  /\ requests' = Append(requests, cp)
           /\ proc' = r.proc
           /\ state' = r.state
           /\ model' = r.model
           /\ frames' = [frames EXCEPT ![i + 1] =
                            set_transformed_image(frame, r.proc.images[1])]
    /\ i' = i + 1
    /\ UNCHANGED <<args, p, fs, parameterization, pc, error, source_video,
                   cancelled, out>>

\* The iteration that finds state.interrupted set (lines 517-518), and what
\* follows the loop.
Break ==
    /\ pc = "Running"
    /\ i < Len(frames)
    /\ state.interrupted
    /\ state' = [state EXCEPT !.skipped = FALSE]
    /\ cancelled' = TRUE
    /\ AfterLoop(proc, frames)
    /\ UNCHANGED <<args, p, fs, parameterization, source_video, frames, i,
                   model, requests>>

\* The loop ran over every frame; what follows it.
Finish ==
    /\ pc = "Running"
    /\ i = Len(frames)
    /\ AfterLoop(proc, frames)
    /\ UNCHANGED <<args, p, fs, parameterization, source_video, frames, i,
                   cancelled, state, model, requests>>

\* The host's Interrupt and Skip buttons set the shared flags at any moment
\* of a run, frame loading included.
Interrupt ==
    /\ pc \in {"Idle", "Running"}
    /\ ~state.interrupted
    /\ state' = [state EXCEPT !.interrupted = TRUE]
    /\ UNCHANGED <<args, p, fs, parameterization, pc, error, source_video,
                   frames, i, cancelled, model, requests, proc, out>>

Skip ==
    /\ pc \in {"Idle", "Running"}
    /\ ~state.skipped
    /\ state' = [state EXCEPT !.skipped = TRUE]
    /\ UNCHANGED <<args, p, fs, parameterization, pc, error, source_video,
                   frames, i, cancelled, model, requests, proc, out>>

Next == Run \/ ProcessFrame \/ Break \/ Finish \/ Interrupt \/ Skip

Spec == Init /\ [][Next]_vars

\* ----------------------------------------------------------------- claims
Terminal == pc \in {"Returned", "Raised"}

\* The path use_images_directory selects.
SelectedPath ==
    IF args.use_images_directory THEN args.directory_upload_path
    ELSE args.video_path

SelectedMissing == SelectedPath = NoPath \/ ~os_path_exists(SelectedPath)

\* The transformed images of the first k frames, in source order.
TransformedPrefix(k) == [j \in 1..k |-> Generated(frames[j].frame_image)]

FrameImages(fr) == [j \in 1..Len(fr) |-> fr[j].frame_image]

\* C1: in a run that is no test run, when the interrupt is seen at the frame
\* boundary after frame k (k+1 = i frames done, at least one left), the video
\* is assembled and holds exactly the transformed images of frames 0..k, in
\* order.
C1_CancelledVideoHoldsProcessedFrames ==
    (Terminal /\ cancelled /\ ~args.test_run /\ i >= 1)
        => (out.released /\ out.written = TransformedPrefix(i))

\* C2: with colour correction from the generated image, the request of frame
\* k > 0 carries the transformed output of frame k-1 as its reference and the
\* request of frame 0 carries none.
C2_ColourReferenceIsPreviousOutput ==
    (enabled(args)
     /\ args.color_correction = color_correction_option_generated_image)
        => \A j \in 1..Len(requests) :
               requests[j].color_corrections =
                   IF j = 1 THEN None ELSE Generated(frames[j - 1].frame_image)

\* C3: the result returned over a non-empty source holds exactly the
\* transformed images of the frames that were processed, in source order, and
\* the seed of the last pipeline invocation that completed.
C3_ResultHoldsProcessedImagesAndLastSeed ==
    (pc = "Returned" /\ Len(frames) > 0)
        => (proc.images = TransformedPrefix(i) /\ proc.seed = Len(requests))

\* C4: a run whose loop was left through the interrupt flag, at whichever
\* frame boundary, ends without an error and goes on to create_mp4.
C4_CancellationIsNotAnError ==
    (Terminal /\ cancelled)
        => (pc = "Returned" /\ error = NoError /\ out.called)

\* C5: an existing source that yields no usable frame ends the run with the
\* empty-source error of the constructor, no frame processed, no pipeline
\* invocation, no video.
C5_EmptySourceRaisesAtConstruction ==
    (Terminal /\ enabled(args) /\ ~SelectedMissing /\ fs.count = 0)
        => (pc = "Raised" /\ error = EmptySource
            /\ source_video.error = EmptySource
            /\ i = 0 /\ requests = <<>> /\ out = NoVideo)

\* What a source-not-found end of the run looks like: raised by the
\* constructor before it touched the source, nothing invoked, nothing written.
SourceNotFoundOutcome ==
    /\ pc = "Raised"
    /\ error = SourceNotFound
    /\ ~source_video.attempted
    /\ frames = <<>> /\ i = 0
    /\ requests = <<>> /\ model.sample_extra = 0 /\ model.apply_model = 0
    /\ out = NoVideo

\* C6 as stated: whenever the selected path is missing, empty or does not
\* exist, the run ends with the source-not-found error before any loading and
\* before any pipeline or model invocation.
C6_MissingSourceAlwaysRaises ==
    (Terminal /\ SelectedMissing) => SourceNotFoundOutcome

\* C6 as amended: that holds when at least one of the two paths is non-empty;
\* with both paths empty the script is not enabled, and the run hands the base
\* request to the pipeline once and returns its result without an error.
C6_MissingSourceRaisesWhenEnabled ==
    (Terminal /\ SelectedMissing)
        => IF enabled(args) THEN SourceNotFoundOutcome
           ELSE /\ pc = "Returned" /\ error = NoError
                /\ requests = <<p>>
                /\ proc.bound /\ proc.images = <<Generated(p.init_images)>>
                /\ ~source_video.attempted /\ frames = <<>>
                /\ model.sample_extra = 0 /\ out = NoVideo

\* C6 witness: the directory is selected and its path is empty while a video
\* path is given, and the run has ended with the source-not-found error.
C6_Witness ==
    /\ Terminal /\ args.use_images_directory
    /\ args.directory_upload_path = NoPath /\ args.video_path = "there"
    /\ error = SourceNotFound

\* C7: once the source is built from an existing path holding N usable
\* frames, the frames are the first N of the source in order without a test
\* cap and the first min(k, N) with the cap k, and the loader opened or
\* decoded exactly those and none after them.
C7_LoaderYieldsCappedPrefix ==
    (pc # "Idle" /\ enabled(args) /\ ~SelectedMissing)
        => LET n == IF args.test_run
                    THEN Min(args.test_run_frames_count, fs.count)
                    ELSE fs.count
               ids == [j \in 1..n |-> j]
           IN  /\ FrameImages(frames) = ids
               /\ FrameImages(source_video.frames) = ids
               /\ source_video.opened = ids

\* C7 witness: a directory with more images than the cap, loaded under the
\* cap, beside a file that is no image.
C7_Witness ==
    /\ pc # "Idle" /\ args.use_images_directory /\ ~SelectedMissing
    /\ args.test_run /\ args.test_run_frames_count < fs.count /\ fs.other
    /\ Len(frames) = args.test_run_frames_count

\* C8: every call of the noise inversion with steps = s makes exactly s
\* apply_model calls, one for each i = 1..s, whatever the parameterization.
C8_ApplyModelOncePerStep ==
    /\ model.apply_model = model.sample_extra * p.steps
    /\ model.sample_extra > 0
        => /\ Len(model.inversion) = p.steps
           /\ \A j \in 1..Len(model.inversion) : model.inversion[j].i = j

\* C8 witness: an inversion under the v parameterization with several steps.
C8_Witness ==
    /\ model.sample_extra > 0 /\ parameterization = "v" /\ p.steps >= 2

\* C9: create_mp4 of a test run writes nothing, makes no directory and sets no
\* output path; otherwise it writes one frame per entry of the frame
\* sequence, in sequence order.
C9_CreateMp4WritesEveryFrameUnlessTestRun ==
    out.called
        => IF args.test_run
           THEN out.written = <<>> /\ ~out.makedirs /\ ~out.output_path
           ELSE out.written =
                    [j \in 1..Len(frames) |-> frames[j].transformed_image]

\* The loop of Script.run was entered over N = Len(frames) frames.
LoopEntered == pc # "Idle" /\ source_video.error = NoError /\ Len(frames) > 0

\* C10 as stated: once initialised the job count is N * n_iter and stays so
\* at every frame boundary and at the end of the run.
C10_JobCountStaysFramesTimesIter ==
    LoopEntered => state.job_count = Len(frames) * p.n_iter

\* C10 as amended: the job count starts at N * n_iter and every sample_extra
\* call adds one, so it is N * n_iter plus the sample_extra calls made so far.
C10_JobCountGrowsWithSampleExtra ==
    LoopEntered
        => state.job_count = Len(frames) * p.n_iter + model.sample_extra

\* C10 witness: a frame boundary after at least one processed frame.
C10_Witness ==
    LoopEntered /\ pc = "Running" /\ i >= 1 /\ model.sample_extra >= 1

\* The frames that hold a transformed image are exactly the first k.
TransformedArePrefix(fr, k) ==
    \A j \in 1..Len(fr) : (fr[j].transformed_image # None) <=> (j <= k)

\* In every state of a run over a source the transformed frames are the first
\* i of the sequence, and the pipeline was invoked once for each of them, in
\* source order.
C11_PrefixInvariant ==
    enabled(args)
        => /\ i <= Len(frames)
           /\ TransformedArePrefix(frames, i)
           /\ Len(requests) = i
           /\ \A j \in 1..Len(requests) : requests[j].frame = j

\* In every step: a pipeline invocation is for the frame right after the
\* transformed prefix and leaves that frame transformed, and an image a frame
\* holds is never written again.
C11_StepOrder ==
    /\ (enabled(args) /\ Len(requests') > Len(requests))
        => LET k == requests'[Len(requests')].frame
           IN  /\ Len(requests') = Len(requests) + 1
               /\ TransformedArePrefix(frames, k - 1)
               /\ TransformedArePrefix(frames', k)
    /\ \A j \in 1..Len(frames) :
           frames[j].transformed_image # None
               => /\ j <= Len(frames')
                  /\ frames'[j].transformed_image = frames[j].transformed_image

\* C11: the frames that hold a transformed image always form a prefix of the
\* source sequence, the pipeline is invoked for frame k only once frames
\* 0..k-1 hold theirs and frame k and the later ones hold none, and a frame's
\* transformed image, once written, is not written again.
C11_SourceOrderWriteOnce == []C11_PrefixInvariant /\ [][C11_StepOrder]_vars

\* C11 witness: a frame boundary inside a run, with two frames transformed
\* and at least one still to come.
C11_Witness ==
    /\ pc = "Running" /\ i >= 2 /\ i < Len(frames)
    /\ frames[i].transformed_image # None
    /\ frames[i + 1].transformed_image = None

\* Entry k (0-based) of the reversed schedule the inversion of this run reads.
ScheduleEntry(k) == At(flip(get_sigmas(p.steps)), k)

\* C12: in the last inversion, iteration i takes its scale factors from
\* sigmas[i-1], its timestep from sigmas[1] when i = 1 and from sigmas[i-1]
\* otherwise, divides the step direction by 2*sigmas[1] when i = 1 and by
\* sigmas[i-1] otherwise, advances by sigmas[i] - sigmas[i-1], and the result
\* is divided by the last entry sigmas[s].
C12_ScheduleIndexSelection ==
    model.sample_extra > 0
        => /\ \A j \in 1..Len(model.inversion) :
                  LET r == model.inversion[j]
                  IN  /\ r.i = j
                      /\ r.c_out = <<"c_out", ScheduleEntry(j - 1)>>
                      /\ r.c_in = <<"c_in", ScheduleEntry(j - 1)>>
                      /\ r.t = IF j = 1 THEN ScheduleEntry(1)
                               ELSE ScheduleEntry(j - 1)
                      /\ r.div = IF j = 1 THEN 2 * ScheduleEntry(1)
                                 ELSE ScheduleEntry(j - 1)
                      /\ r.dt = ScheduleEntry(j) - ScheduleEntry(j - 1)
           /\ model.divisor = ScheduleEntry(p.steps)

\* C12 witness: an inversion that ran a first and a later iteration.
C12_Witness ==
    /\ model.sample_extra > 0 /\ Len(model.inversion) >= 2
    /\ model.inversion[1].t = model.inversion[2].t
    /\ model.divisor # None

====
